---- MODULE Spec2Model ----
(***************************************************************************)
(* RedditAutoCrosspostBot: the comment-stream loop and its retry wrapper   *)
(* (RedditAutoCrosspostBot.py), Phase-1 (phase1_handler.py) and Phase-2    *)
(* (phase2_handler.py).                                                    *)
(*                                                                         *)
(* Strings are sequences of one-character strings.  Python's None, and a   *)
(* raised exception, are tagged records so that every value compares.      *)
(***************************************************************************)
EXTENDS Integers, Sequences, FiniteSets, TLC

VARIABLES
    DEBUG,        \* environment.DEBUG       (not --production)
    LISTEN_ONLY,  \* environment.LISTEN_ONLY (--listen_only)
    pc,           \* position of the main thread
    exc,          \* the exception in flight (or that ended the process), else NoExc
    arrived,      \* comment ids that exist on the platform
    skipped,      \* ids the current stream subscription skipped as pre-existing
    yielded,      \* ids the current stream subscription has yielded
    handled,      \* id -> number of times the stream passed it to Phase-1 (history)
    faulted,      \* ids whose handling raised and was logged by the loop (history)
    last,         \* input and outcome of the latest Phase-1 pass
    replies,      \* reply sink: id -> sequence of replies posted to that comment
    db,           \* staging store: id -> "none" | "fresh" | "aged" | "checked"
    batch,        \* records pulled by the latest Phase-2 run
    queue,        \* records of the running Phase-2 run not yet given to a worker
    running,      \* records a Phase-2 worker is processing
    processed,    \* id -> live comment the worker of the latest Phase-2 run saw for it
    body,         \* input of the pattern detector (pattern specification)
    found,        \* output of the pattern detector (pattern specification)
    pool          \* the thread pool of one Phase-2 run, by counts (pool specification)

vars == <<DEBUG, LISTEN_ONLY, pc, exc, arrived, skipped, yielded, handled, faulted,
          last, replies, db, batch, queue, running, processed, body, found, pool>>

-----------------------------------------------------------------------------
(* Bounds of the model *)

MaxComments == 2     \* comment ids on the platform
MaxBodyLen == 5      \* length of the bodies given to the pattern detector
MaxDeliveries == 2   \* times one comment is passed to Phase-1 (redelivering stream)
MaxBatch == 52       \* records pulled by one Phase-2 run (pool specification)

-----------------------------------------------------------------------------
(* Python values *)

None == [some |-> FALSE, val |-> <<>>]
Some(v) == [some |-> TRUE, val |-> v]

NoExc == [cls |-> "none", msg |-> "", text |-> "", orig |-> "none"]
Raise(cls) == [cls |-> cls, msg |-> "", text |-> "", orig |-> "none"]

LowerLetters == {"a","b","c","d","e","f","g","h","i","j","k","l","m",
                 "n","o","p","q","r","s","t","u","v","w","x","y","z"}
UpperLetters == {"A","B","C","D","E","F","G","H","I","J","K","L","M",
                 "N","O","P","Q","R","S","T","U","V","W","X","Y","Z"}
Digits == {"0","1","2","3","4","5","6","7","8","9"}

\* str.lower(), on the letters the model uses in mixed case
LowerChar(ch) ==
    CASE ch = "A" -> "a" [] ch = "B" -> "b" [] ch = "C" -> "c" [] ch = "D" -> "d"
      [] ch = "L" -> "l" [] ch = "R" -> "r" [] ch = "S" -> "s" [] ch = "U" -> "u"
      [] OTHER -> ch
Lower(s) == [i \in DOMAIN s |-> LowerChar(s[i])]

-----------------------------------------------------------------------------
(* Pattern Detector: subreddit_regex and check_pattern *)

\* the character class [a-zA-Z0-9-_]
InNameClass(ch) == ch \in LowerLetters \cup UpperLetters \cup Digits \cup {"-", "_"}

\* end of the longest run of class characters of s that starts at position i
\* (i - 1 when s[i] is not in the class): the greedy match of [a-zA-Z0-9-_]+
RECURSIVE RunEnd(_, _)
RunEnd(s, i) ==
    IF i <= Len(s) /\ InNameClass(s[i]) THEN RunEnd(s, i + 1) ELSE i - 1

\* '$' without re.MULTILINE: at the end of the string, or just before a newline
\* that is the string's last character.  p is the position of the next character.
AtDollar(s, p) == p = Len(s) + 1 \/ (p = Len(s) /\ s[p] = "\n")

\* subreddit_regex.search(s) for ^(/)?r/([a-zA-Z0-9-_]+)$ : group 2, or None.
\* '^' pins the match to position 1; (/)? takes the slash when there is one (without
\* it the next character would have to be "r"); '+' cannot give characters back,
\* because '$' never holds before a class character.
RegexSearch(s) ==
    LET st == IF Len(s) >= 1 /\ s[1] = "/" THEN 2 ELSE 1
        ne == RunEnd(s, st + 2)
    IN  IF /\ Len(s) >= st + 1
           /\ s[st] = "r"
           /\ s[st + 1] = "/"
           /\ ne >= st + 2
           /\ AtDollar(s, ne + 1)
        THEN Some(SubSeq(s, st + 2, ne))
        ELSE None

check_pattern_NoEndAnchor(b) ==
    LET st == IF Len(b) >= 1 /\ b[1] = "/" THEN 2 ELSE 1
        ne == RunEnd(b, st + 2)
    IN  IF Len(b) >= st + 1 /\ b[st] = "r" /\ b[st + 1] = "/" /\ ne >= st + 2
        THEN Some(SubSeq(b, st + 2, ne))
        ELSE None

\* check_pattern(comment), of comment.body
check_pattern(b) == RegexSearch(b)

-----------------------------------------------------------------------------
(* Phase-1 eligibility predicates *)

SUBREDDIT_NAME_LENGTH_LIMIT == 24

\* consts.SUB_BLACKLIST: a static set of lower-case community names
SUB_BLACKLIST == { <<"b","l">> }

is_mod_post(c) == c.distinguished = "moderator"

is_top_level_comment(c) == c.parent_id = c.link_id

\* \bsub\b|\bsubs\b|\bsubreddit\b|\bsubreddits\b with re.IGNORECASE.  A title is
\* the sequence of its words (maximal runs of word characters), so a match between
\* two word boundaries is a whole word of the title.
prohibited_phrases ==
    { <<"s","u","b">>, <<"s","u","b","s">>,
      <<"s","u","b","r","e","d","d","i","t">>,
      <<"s","u","b","r","e","d","d","i","t","s">> }

title_contains_prohibited_phrases(c) ==
    \E i \in DOMAIN c.title : Lower(c.title[i]) \in prohibited_phrases

-----------------------------------------------------------------------------
(* Duplicate Search Client: get_posts_with_same_content *)

Result0 == [posts_found |-> FALSE, posts |-> <<>>,
            unable_to_search |-> FALSE, unable_to_search_reason |-> "None"]

Unable(reason) == [Result0 EXCEPT !.unable_to_search = TRUE,
                                  !.unable_to_search_reason = reason]

Found(posts) == [Result0 EXCEPT !.posts_found = TRUE, !.posts = posts]

\* what a call of get_posts_with_same_content comes to: a returned Result or a
\* raised exception, and whether repost_detector was consulted on the way
Returned(result, fallback) == [raised |-> NoExc, result |-> result, fallback |-> fallback]
Raised(e) == [raised |-> e, result |-> Result0, fallback |-> FALSE]

TextBanned == "{\"reason\": \"banned\"}"
TextOtherReason == "{\"reason\": \"private\"}"
TextNoReason == "{\"message\": \"Not Found\"}"
TextList == "[]"
TextHtml == "<html>"

\* json.loads on the response bodies of the model: a dict, another JSON value, or
\* JSONDecodeError (ok = FALSE)
JsonLoads(text) ==
    CASE text = TextBanned      -> [ok |-> TRUE, isdict |-> TRUE, obj |-> [reason |-> "banned"]]
      [] text = TextOtherReason -> [ok |-> TRUE, isdict |-> TRUE, obj |-> [reason |-> "private"]]
      [] text = TextNoReason    -> [ok |-> TRUE, isdict |-> TRUE, obj |-> [message |-> "Not Found"]]
      [] text = TextList        -> [ok |-> TRUE, isdict |-> FALSE, obj |-> [list |-> "empty"]]
      [] OTHER                  -> [ok |-> FALSE, isdict |-> FALSE, obj |-> [list |-> "empty"]]

\* lines 111-122: the target does not exist, or is banned when the payload says so
NonexistentOrBanned(e) ==
    IF e.text # ""
    THEN LET j == JsonLoads(e.text)
         IN  IF ~j.ok THEN Returned(Unable("SUBREDDIT_DOES_NOT_EXIST"), FALSE)
             ELSE IF ~j.isdict THEN Raised(Raise("TypeError"))
             ELSE IF "reason" \notin DOMAIN j.obj THEN Raised(Raise("KeyError"))
             ELSE IF j.obj["reason"] = "banned"
                  THEN Returned(Unable("SUBREDDIT_IS_BANNED"), FALSE)
                  ELSE Returned(Unable("SUBREDDIT_DOES_NOT_EXIST"), FALSE)
    ELSE Returned(Unable("SUBREDDIT_DOES_NOT_EXIST"), FALSE)

\* lines 104-130: the except clause around the search, on e.args[0]
SearchFailure(e) ==
    IF e.msg = "Redirect to /submit" THEN Returned(Result0, FALSE)
    ELSE IF e.msg \in {"Redirect to /subreddits/search", "received 404 HTTP response"}
         THEN NonexistentOrBanned(e)
    ELSE IF e.msg = "received 403 HTTP response"
         THEN Returned(Unable("SUBREDDIT_IS_PRIVATE"), FALSE)
    ELSE Raised(e)

\* resp.search is what the platform's search does (the submissions, or the exception
\* e it raises); resp.prior_posts is what repost_detector.get_reposts_in_sub returns
get_posts_with_same_content(resp) ==
    IF ~resp.search.ok THEN SearchFailure(resp.search.e)
    ELSE IF Len(resp.search.submissions) > 0
         THEN Returned(Found(resp.search.submissions), FALSE)
    ELSE IF resp.prior_posts # <<>>
         THEN Returned(Found(resp.prior_posts), TRUE)
    ELSE Returned(Result0, TRUE)

-----------------------------------------------------------------------------
(* Phase-1: handle_incoming_comment *)

Reply(template, account) == [op |-> "reply", what |-> template, as |-> account]
Search == [op |-> "search", what |-> "url", as |-> "default"]
AddComment == [op |-> "add_comment", what |-> "racb_db", as |-> "default"]

\* what a pass comes to: the effects performed, in order, and the exception raised
Done(trace) == [trace |-> trace, raised |-> NoExc]
Threw(trace, e) == [trace |-> trace, raised |-> e]

reply_to_source_equals_target_comment ==
    Reply("THATS_WHERE_WE_ARE", "SAME_SUBREDDIT_BOT_NAME")
reply_to_nonexistent_target_subreddit_comment ==
    Reply("NONEXISTENT_SUBREDDIT", "SUB_DOESNT_EXIST_BOT_NAME")
reply_to_same_content_post_comment ==
    Reply("FOUND_POST_WITH_SAME_CONTENT", "default")

\* lines 50-54
StageIfTopLevel_AnyLevel(c) == Done(<<Search, AddComment>>)

StageIfTopLevel(c) ==
    IF ~is_top_level_comment(c) THEN Done(<<Search>>)
    ELSE Done(<<Search, AddComment>>)

\* lines 40-48, on the Result the search returned
ReplyOnResult_BannedAsNonexistent(c, r) ==
    IF r.posts_found THEN Done(<<Search, reply_to_same_content_post_comment>>)
    ELSE IF r.unable_to_search
            /\ r.unable_to_search_reason \in {"SUBREDDIT_DOES_NOT_EXIST", "SUBREDDIT_IS_BANNED"}
         THEN Done(<<Search, reply_to_nonexistent_target_subreddit_comment>>)
    ELSE StageIfTopLevel(c)

ReplyOnResult_NoReturn(c, r) ==
    IF r.posts_found
    THEN Done(<<Search, reply_to_same_content_post_comment>>
              \o Tail(StageIfTopLevel(c).trace))
    ELSE IF r.unable_to_search /\ r.unable_to_search_reason = "SUBREDDIT_DOES_NOT_EXIST"
         THEN Done(<<Search, reply_to_nonexistent_target_subreddit_comment>>
                   \o Tail(StageIfTopLevel(c).trace))
    ELSE StageIfTopLevel(c)

ReplyOnResult(c, r) ==
    IF r.posts_found THEN Done(<<Search, reply_to_same_content_post_comment>>)
    ELSE IF r.unable_to_search /\ r.unable_to_search_reason = "SUBREDDIT_DOES_NOT_EXIST"
         THEN Done(<<Search, reply_to_nonexistent_target_subreddit_comment>>)
    ELSE StageIfTopLevel(c)

\* lines 39-54
SearchAndDecide(c, resp) ==
    LET g == get_posts_with_same_content(resp)
    IN  IF g.raised # NoExc THEN Threw(<<Search>>, g.raised)
        ELSE ReplyOnResult(c, g.result)

\* lines 34-37 and what follows them
SameSubredditBranch_SearchesFirst(c, target, resp) ==
    SearchAndDecide(c, resp)

SameSubredditBranch(c, target, resp) ==
    IF Lower(target) = Lower(c.subreddit)
    THEN Done(<<reply_to_source_equals_target_comment>>)
    ELSE SearchAndDecide(c, resp)

\* lines 15-54.  resp is what the platform answers if the search is made.
handle_incoming_comment_SameSubredditFirst(c, resp) ==
    LET target_subreddit == check_pattern(c.body)
    IN  IF ~target_subreddit.some THEN Done(<<>>)
        ELSE IF Lower(target_subreddit.val) = Lower(c.subreddit)
             THEN Done(<<reply_to_source_equals_target_comment>>)
        ELSE IF Len(target_subreddit.val) > SUBREDDIT_NAME_LENGTH_LIMIT THEN Done(<<>>)
        ELSE IF is_mod_post(c) THEN Done(<<>>)
        ELSE IF title_contains_prohibited_phrases(c) THEN Done(<<>>)
        ELSE IF Lower(target_subreddit.val) \in SUB_BLACKLIST
                \/ Lower(c.subreddit) \in SUB_BLACKLIST THEN Done(<<>>)
        ELSE SearchAndDecide(c, resp)

handle_incoming_comment(c, resp) ==
    LET target_subreddit == check_pattern(c.body)
    IN  IF ~target_subreddit.some THEN Done(<<>>)
        ELSE IF Len(target_subreddit.val) > SUBREDDIT_NAME_LENGTH_LIMIT THEN Done(<<>>)
        ELSE IF is_mod_post(c) THEN Done(<<>>)
        ELSE IF title_contains_prohibited_phrases(c) THEN Done(<<>>)
        ELSE IF Lower(target_subreddit.val) \in SUB_BLACKLIST
                \/ Lower(c.subreddit) \in SUB_BLACKLIST THEN Done(<<>>)
        ELSE SameSubredditBranch(c, target_subreddit.val, resp)

-----------------------------------------------------------------------------
(* The platform's values the specifications draw from *)

Ids == 1 .. MaxComments

Str_r_Ab == <<"r","/","A","b">>
Str_slash_r_cd == <<"/","r","/","c","d">>
Str_r_cd == <<"r","/","c","d">>
Str_hi == <<"h","i">>
Str_r_bl == <<"r","/","b","l">>
Str_r_long == <<"r","/">> \o [i \in 1 .. (SUBREDDIT_NAME_LENGTH_LIMIT + 1) |-> "a"]

TitlePlain == << <<"m","y">>, <<"c","a","t">> >>
TitleSubs == << <<"b","e","s","t">>, <<"S","u","b","s">> >>

Comment(id, b, sub, dist, title, parent) ==
    [id |-> id, body |-> b, subreddit |-> sub, distinguished |-> dist,
     title |-> title, parent_id |-> parent, link_id |-> "t3_x"]

NoComment == Comment(0, <<>>, <<>>, "none", <<>>, "t3_x")

\* every combination of the attributes Phase-1 reads
CommentInputs ==
    { Comment(1, b, sub, dist, title, parent) :
        b \in {Str_r_Ab, Str_slash_r_cd, Str_hi, Str_r_bl, Str_r_long},
        sub \in { <<"a","B">>, <<"e","f">>, <<"B","L">> },
        dist \in {"moderator", "none"},
        title \in {TitlePlain, TitleSubs},
        parent \in {"t3_x", "t1_y"} }

SearchOk(submissions, prior) ==
    [search |-> [ok |-> TRUE, submissions |-> submissions, e |-> NoExc],
     prior_posts |-> prior]
SearchError(cls, msg, text, orig) ==
    [search |-> [ok |-> FALSE, submissions |-> <<>>,
                 e |-> [cls |-> cls, msg |-> msg, text |-> text, orig |-> orig]],
     prior_posts |-> <<>>]

ResponseTexts == {"", TextHtml, TextBanned, TextOtherReason, TextNoReason, TextList}

\* what the platform can answer a search with
SearchResponses ==
    { SearchOk(<<"p1">>, <<>>), SearchOk(<<"p1","p2">>, <<>>),
      SearchOk(<<>>, <<>>), SearchOk(<<>>, <<"p0">>),
      SearchError("Redirect", "Redirect to /submit", "", "none"),
      [SearchError("Redirect", "Redirect to /submit", "", "none")
          EXCEPT !.prior_posts = <<"p0">>],
      SearchError("Forbidden", "received 403 HTTP response", "", "none"),
      SearchError("ServerError", "received 500 HTTP response", "", "none"),
      SearchError("RequestException", "error with request", "", "MaxRetryError") }
    \cup { SearchError("Redirect", "Redirect to /subreddits/search", t, "none") :
             t \in ResponseTexts }
    \cup { SearchError("NotFound", "received 404 HTTP response", t, "none") :
             t \in ResponseTexts }

\* the comment with a given id on the stream of the loop specifications
StreamComment(id) ==
    CASE id % 4 = 1 -> Comment(id, Str_slash_r_cd, <<"a","B">>, "none", TitlePlain, "t3_x")
      [] id % 4 = 2 -> Comment(id, Str_r_cd, <<"e","f">>, "none", TitlePlain, "t3_x")
      [] id % 4 = 3 -> Comment(id, Str_r_Ab, <<"a","B">>, "none", TitlePlain, "t3_x")
      [] OTHER      -> Comment(id, Str_hi, <<"e","f">>, "none", TitlePlain, "t3_x")

StreamResponses ==
    { SearchOk(<<"p1">>, <<>>), SearchOk(<<>>, <<>>),
      SearchError("NotFound", "received 404 HTTP response", "", "none"),
      SearchError("ServerError", "received 500 HTTP response", "", "none") }

NoResponse == SearchOk(<<>>, <<>>)
NoOutcome == [trace |-> <<>>, raised |-> NoExc]
NoLive == [seen |-> FALSE, fetch |-> "ok", score |-> 0, body |-> <<>>,
           resp |-> NoResponse]

-----------------------------------------------------------------------------
(* Reply sink and Staging Store *)

IsReply(e) == e.op = "reply"
IsAddComment(e) == e.op = "add_comment"

\* the replies of a pass reach the comment they answer
Post(sink, id, trace) == [sink EXCEPT ![id] = @ \o SelectSeq(trace, IsReply)]

\* racb_db.add_comment
add_comment(store, id) == [store EXCEPT ![id] = IF @ = "none" THEN "fresh" ELSE @]
\* racb_db.set_comment_checked
set_comment_checked(store, id) == [store EXCEPT ![id] = IF @ = "none" THEN @ ELSE "checked"]
\* racb_db.delete_comment
delete_comment(store, id) == [store EXCEPT ![id] = "none"]
\* racb_db.get_unchecked_comments_older_than
get_unchecked_comments_older_than(store) == { id \in DOMAIN store : store[id] = "aged" }

Insert(store, id, trace) ==
    IF SelectSeq(trace, IsAddComment) # <<>> THEN add_comment(store, id) ELSE store

-----------------------------------------------------------------------------
(* Initial values shared by the specifications *)

\* the pool of a Phase-2 run over size records, told apart only by one of them
\* (mine): how many records wait in the executor's work queue, how many a thread
\* is processing, how many are done; where mine is and how often it was handed over
Pool(size, queued, active, finished, mine, handed) ==
    [size |-> size, queued |-> queued, active |-> active, finished |-> finished,
     mine |-> mine, handed |-> handed]

NoPool == Pool(0, 0, 0, 0, "none", 0)

InitStores ==
    /\ pool = NoPool
    /\ replies = [id \in Ids |-> <<>>]
    /\ db = [id \in Ids |-> "none"]
    /\ batch = {} /\ queue = {} /\ running = {}
    /\ processed = [id \in Ids |-> NoLive]

InitStream ==
    /\ arrived = {} /\ skipped = {} /\ yielded = {}
    /\ handled = [id \in Ids |-> 0] /\ faulted = {}
    /\ exc = NoExc

InitPattern ==
    /\ body = <<>>
    /\ found = [done |-> FALSE, r |-> None]

-----------------------------------------------------------------------------
(* Specification of the Pattern Detector alone *)

PatternAlphabet == {"/", "r", "a", "-", " ", "\n", "."}

Bodies == UNION { [1 .. n -> PatternAlphabet] : n \in 0 .. MaxBodyLen }

InitPatternSpec ==
    /\ body \in Bodies
    /\ found = [done |-> FALSE, r |-> None]
    /\ DEBUG = FALSE /\ LISTEN_ONLY = FALSE
    /\ pc = "call"
    /\ last = [c |-> NoComment, resp |-> NoResponse, out |-> NoOutcome]
    /\ InitStream /\ InitStores

CheckPattern ==
    /\ pc = "call"
    /\ found' = [done |-> TRUE, r |-> check_pattern(body)]
    /\ pc' = "return"
    /\ UNCHANGED <<DEBUG, LISTEN_ONLY, exc, arrived, skipped, yielded, handled, faulted,
                   last, replies, db, batch, queue, running, processed, body, pool>>

SpecPattern == InitPatternSpec /\ [][CheckPattern]_vars

-----------------------------------------------------------------------------
(* Specification of one Phase-1 pass, over every comment and search answer *)

InitPhase1Spec ==
    /\ \E c \in CommentInputs, resp \in SearchResponses :
          last = [c |-> c, resp |-> resp, out |-> NoOutcome]
    /\ DEBUG = FALSE /\ LISTEN_ONLY \in BOOLEAN
    /\ pc = "call"
    /\ InitStream /\ InitStores /\ InitPattern

\* listener.handle_incoming_comment(comment), with its effects on sink and store
Phase1Pass ==
    /\ pc = "call"
    /\ LET out == handle_incoming_comment(last.c, last.resp)
       IN  /\ last' = [last EXCEPT !.out = out]
           /\ replies' = Post(replies, last.c.id, out.trace)
           /\ db' = Insert(db, last.c.id, out.trace)
           /\ exc' = out.raised
    /\ pc' = "return"
    /\ UNCHANGED <<DEBUG, LISTEN_ONLY, arrived, skipped, yielded, handled, faulted,
                   batch, queue, running, processed, body, found, pool>>

SpecPhase1 == InitPhase1Spec /\ [][Phase1Pass]_vars

-----------------------------------------------------------------------------
(* Phase-2: run_filters and process_comment_entry *)

COMMENT_SCORE_THRESHOLD == 1
max_workers == 50

\* ThreadPoolExecutor(max_workers=50): a record leaves the work queue when one of
\* the pool's threads is free, and the pool never has more than max_workers threads
PoolHasIdleThread_Unbounded(active) == TRUE

PoolHasIdleThread(active) == active < max_workers

\* the end of the with block: executor.shutdown(wait=True) returns when no record
\* is waiting in the work queue or being processed
ShutdownReturns_NoWait(unfinished) == TRUE

ShutdownReturns(unfinished) == unfinished = 0

\* the live comment a worker gets from the platform: the fetch triggered by
\* comment.score succeeds, or raises praw's ClientException, or raises another
\* exception; with its score, its body and the platform's answer to the search
Live(fetch, score, b, resp) ==
    [seen |-> TRUE, fetch |-> fetch, score |-> score, body |-> b, resp |-> resp]

LiveComments ==
    { Live("ClientException", 0, <<>>, NoResponse),
      Live("ServerError", 0, <<>>, NoResponse),
      Live("ok", 0, Str_r_cd, NoResponse),
      Live("ok", 1, Str_hi, NoResponse),
      Live("ok", 1, Str_r_cd, SearchOk(<<>>, <<>>)),
      Live("ok", 1, Str_r_cd, SearchOk(<<"p1">>, <<>>)),
      Live("ok", 1, Str_r_cd, SearchError("Forbidden", "received 403 HTTP response", "", "none")) }

\* the names bound in phase2_handler's module namespace
Phase2Globals ==
    {"logging", "os", "concurrent", "praw", "pytimeparse", "racb_db",
     "reddit_instantiator", "repost_detector", "phase1_handler",
     "filter_comments_from_db", "run_filters", "get_full_comment_from_reddit",
     "check_comment_availability", "process_comment_entry"}

\* A name that a class body binds is looked up, inside that body, in the class
\* namespace, then in the module's globals (and builtins), never in the enclosing
\* function: line 35 reads target_subreddit with these names bound before it.
ResultClassNamespace == {"passes_filter", "reason", "comment"}
ClassBodyBinds(name) == name \in ResultClassNamespace \cup Phase2Globals

FilterResult(passes, reason) ==
    [type |-> "Result", passes_filter |-> passes, reason |-> reason]
FilterReturned(r) == [raised |-> NoExc, result |-> r]
FilterRaised(e) == [raised |-> e, result |-> FilterResult(FALSE, "None")]

\* lines 78-87
check_comment_availability(live) ==
    IF live.fetch = "ok" THEN [raised |-> NoExc, available |-> TRUE]
    ELSE IF live.fetch = "ClientException" THEN [raised |-> NoExc, available |-> FALSE]
    ELSE [raised |-> Raise(live.fetch), available |-> FALSE]

\* line 67: f'UNABLE_TO_SEARCH_TARGET_SUBREDDIT_BECAUSE__{unable_to_search_reason}'
UnableReasonTag(reason) ==
    CASE reason = "SUBREDDIT_DOES_NOT_EXIST" ->
            "UNABLE_TO_SEARCH_TARGET_SUBREDDIT_BECAUSE__SUBREDDIT_DOES_NOT_EXIST"
      [] reason = "SUBREDDIT_IS_BANNED" ->
            "UNABLE_TO_SEARCH_TARGET_SUBREDDIT_BECAUSE__SUBREDDIT_IS_BANNED"
      [] reason = "SUBREDDIT_IS_PRIVATE" ->
            "UNABLE_TO_SEARCH_TARGET_SUBREDDIT_BECAUSE__SUBREDDIT_IS_PRIVATE"
      [] OTHER -> "UNABLE_TO_SEARCH_TARGET_SUBREDDIT_BECAUSE__None"

\* lines 40-71: the filters proper
RunFiltersBody(live) ==
    LET a == check_comment_availability(live)
        target_subreddit == check_pattern(live.body)
        g == get_posts_with_same_content(live.resp)
    IN  IF a.raised # NoExc THEN FilterRaised(a.raised)
        ELSE IF ~a.available THEN FilterReturned(FilterResult(FALSE, "COMMENT_UNAVAILABLE"))
        ELSE IF live.score < COMMENT_SCORE_THRESHOLD
             THEN FilterReturned(FilterResult(FALSE, "COMMENT_SCORE_TOO_LOW"))
        ELSE IF ~target_subreddit.some
             THEN FilterReturned(FilterResult(FALSE, "TARGET_SUBREDDIT_NOT_FOUND"))
        ELSE IF g.raised # NoExc THEN FilterRaised(g.raised)
        ELSE IF g.result.posts_found
             THEN FilterReturned(FilterResult(FALSE, "POST_WITH_SAME_CONTENT_FOUND"))
        ELSE IF g.result.unable_to_search
             THEN FilterReturned(FilterResult(FALSE,
                        UnableReasonTag(g.result.unable_to_search_reason)))
        ELSE FilterReturned(FilterResult(TRUE, "None"))

\* lines 30-71: the class body of Result runs first
run_filters(live) ==
    IF ~ClassBodyBinds("target_subreddit") THEN FilterRaised(Raise("NameError"))
    ELSE RunFiltersBody(live)

\* Python's  v != False
NotEqualFalse(v) == ~(v.type = "bool" /\ v.val = FALSE)

\* lines 90-96, as a worker of the pool runs it: an exception ends the worker and
\* stays in its future, which filter_comments_from_db never reads
process_comment_entry(store, id, live) ==
    LET r == run_filters(live)
    IN  IF r.raised # NoExc THEN store
        ELSE IF NotEqualFalse(r.result) THEN set_comment_checked(store, id)
        ELSE delete_comment(store, id)

-----------------------------------------------------------------------------
(* The main loop: main and listen_to_comment_stream *)

Exc(cls, orig) == [cls |-> cls, msg |-> "", text |-> "", orig |-> orig]

\* what can be raised out of the stream while the next event is pulled; orig is the
\* class of original_exception.args[0] of a prawcore RequestException
StreamFaults ==
    { Exc("ServerError", "none"), Exc("Forbidden", "none"), Exc("ConnectTimeout", "none"),
      Exc("RequestException", "MaxRetryError"), Exc("RequestException", "ReadTimeoutError"),
      Exc("RequestException", "ConnectionError"), Exc("RequestException", "none"),
      Exc("NotFound", "none") }

\* what a job run by schedule.run_pending can raise
JobFaults == { Exc("ServerError", "none"), Exc("KeyError", "none") }

\* lines 66-95: where an exception raised out of listen_to_comment_stream leaves main
MainExceptClauses_NoRequestClause(e, debug) ==
    IF e.cls \in {"ServerError", "Forbidden", "ConnectTimeout"}
    THEN IF debug THEN "exited" ELSE "sleep"
    ELSE "exited"

MainExceptClauses(e, debug) ==
    IF e.cls \in {"ServerError", "Forbidden", "ConnectTimeout"}
    THEN IF debug THEN "exited" ELSE "sleep"
    ELSE IF e.cls = "RequestException"
         THEN IF e.orig \in {"MaxRetryError", "ReadTimeoutError"} THEN "sleep" ELSE "exited"
    ELSE "exited"

\* lines 109-112: where an exception raised while one event is handled leaves the loop
EventExceptClause_AlwaysRaises(debug) == "main_except"

EventExceptClause(debug) == IF debug THEN "main_except" ELSE "stream"

\* stream.comments(skip_existing=True): what a new subscription skips
SkipExisting_Nothing(existing) == {}

SkipExisting(existing) == existing

Idle == [c |-> NoComment, resp |-> NoResponse, out |-> NoOutcome]

Init ==
    /\ DEBUG \in BOOLEAN /\ LISTEN_ONLY \in BOOLEAN
    /\ pc = "start"
    /\ last = Idle
    /\ InitStream /\ InitStores /\ InitPattern

\* the platform: somebody posts a comment
CommentPosted ==
    /\ pc # "exited"
    /\ \E id \in Ids \ arrived : arrived' = arrived \cup {id}
    /\ UNCHANGED <<DEBUG, LISTEN_ONLY, pc, exc, skipped, yielded, handled, faulted, last,
                   replies, db, batch, queue, running, processed, body, found, pool>>

\* the staging store: a record becomes older than PHASE2_WAITING_PERIOD
RecordAges ==
    /\ pc # "exited"
    /\ \E id \in Ids : db[id] = "fresh" /\ db' = [db EXCEPT ![id] = "aged"]
    /\ UNCHANGED <<DEBUG, LISTEN_ONLY, pc, exc, arrived, skipped, yielded, handled, faulted,
                   last, replies, batch, queue, running, processed, body, found, pool>>

\* lines 98-105: main calls listen_to_comment_stream, which subscribes
ListenToCommentStream ==
    /\ pc = "start"
    /\ pc' = "stream"
    /\ skipped' = SkipExisting(arrived)
    /\ yielded' = {}
    /\ UNCHANGED <<DEBUG, LISTEN_ONLY, exc, arrived, handled, faulted, last, replies, db,
                   batch, queue, running, processed, body, found, pool>>

\* lines 105-107: the stream yields comment id and Phase-1 handles it
Handle(id) ==
    /\ pc = "stream"
    /\ \E resp \in StreamResponses :
         LET c == StreamComment(id)
             out == handle_incoming_comment(c, resp)
         IN  /\ last' = [c |-> c, resp |-> resp, out |-> out]
             /\ replies' = Post(replies, id, out.trace)
             /\ db' = Insert(db, id, out.trace)
             /\ exc' = out.raised
             /\ pc' = IF out.raised # NoExc THEN "except" ELSE "pending"
    /\ yielded' = yielded \cup {id}
    /\ handled' = [handled EXCEPT ![id] = @ + 1]
    /\ UNCHANGED <<DEBUG, LISTEN_ONLY, arrived, skipped, faulted, batch, queue, running,
                   processed, body, found, pool>>

HandleComment == \E id \in arrived \ (skipped \cup yielded) : Handle(id)

\* line 108: schedule.run_pending() with no job due, or with jobs that return
RunPendingReturns ==
    /\ pc = "pending"
    /\ pc' = "stream"
    /\ last' = Idle
    /\ UNCHANGED <<DEBUG, LISTEN_ONLY, exc, arrived, skipped, yielded, handled, faulted,
                   replies, db, batch, queue, running, processed, body, found, pool>>

\* line 108: a job run by schedule.run_pending() raises
RunPendingRaises ==
    /\ pc = "pending"
    /\ \E e \in JobFaults : exc' = e
    /\ pc' = "except"
    /\ UNCHANGED <<DEBUG, LISTEN_ONLY, arrived, skipped, yielded, handled, faulted, last,
                   replies, db, batch, queue, running, processed, body, found, pool>>

\* lines 109-112: the exception is logged; in debug mode it is raised again
EventExcept ==
    /\ pc = "except"
    /\ pc' = EventExceptClause(DEBUG)
    /\ exc' = IF EventExceptClause(DEBUG) = "stream" THEN NoExc ELSE exc
    /\ faulted' = faulted \cup {last.c.id}
    /\ last' = Idle
    /\ UNCHANGED <<DEBUG, LISTEN_ONLY, arrived, skipped, yielded, handled, replies, db,
                   batch, queue, running, processed, body, found, pool>>

\* line 105: pulling the next event raises out of listen_to_comment_stream
StreamFault ==
    /\ pc = "stream"
    /\ \E e \in StreamFaults : exc' = e
    /\ pc' = "main_except"
    /\ UNCHANGED <<DEBUG, LISTEN_ONLY, arrived, skipped, yielded, handled, faulted, last,
                   replies, db, batch, queue, running, processed, body, found, pool>>

\* lines 69-95: main's except clauses; an exception they do not absorb ends the process
MainExcept ==
    /\ pc = "main_except"
    /\ pc' = MainExceptClauses(exc, DEBUG)
    /\ UNCHANGED <<DEBUG, LISTEN_ONLY, exc, arrived, skipped, yielded, handled, faulted, last,
                   replies, db, batch, queue, running, processed, body, found, pool>>

\* lines 81 and 93: time.sleep(30) returns and the while loop comes round
WakeUp ==
    /\ pc = "sleep"
    /\ pc' = "start"
    /\ exc' = NoExc
    /\ UNCHANGED <<DEBUG, LISTEN_ONLY, arrived, skipped, yielded, handled, faulted, last,
                   replies, db, batch, queue, running, processed, body, found, pool>>

\* phase2_handler lines 16-26, run as a due job of schedule.run_pending(): the
\* unchecked aged records are pulled and mapped onto the pool
FilterCommentsFromDb ==
    /\ pc = "pending"
    /\ LET comment_entries == get_unchecked_comments_older_than(db)
       IN  /\ batch' = comment_entries
           /\ queue' = comment_entries
           /\ pc' = IF comment_entries = {} THEN "stream" ELSE "phase2"
    /\ processed' = [id \in Ids |-> NoLive]
    /\ last' = Idle
    /\ UNCHANGED <<DEBUG, LISTEN_ONLY, exc, arrived, skipped, yielded, handled, faulted,
                   replies, db, running, body, found, pool>>

\* a pool thread takes a record; the pool has at most max_workers threads
WorkerStarts ==
    /\ pc = "phase2"
    /\ PoolHasIdleThread(Cardinality(running))
    /\ \E id \in queue :
         /\ queue' = queue \ {id}
         /\ running' = running \cup {id}
    /\ UNCHANGED <<DEBUG, LISTEN_ONLY, pc, exc, arrived, skipped, yielded, handled, faulted,
                   last, replies, db, batch, processed, body, found, pool>>

\* the thread runs process_comment_entry on its record, against the live comment
WorkerFinishes ==
    /\ pc = "phase2"
    /\ \E id \in running, live \in LiveComments :
         /\ db' = process_comment_entry(db, id, live)
         /\ processed' = [processed EXCEPT ![id] = live]
         /\ running' = running \ {id}
    /\ UNCHANGED <<DEBUG, LISTEN_ONLY, pc, exc, arrived, skipped, yielded, handled, faulted,
                   last, replies, batch, queue, body, found, pool>>

\* lines 25-27: the with block ends once every thread of the pool has finished
FilterCommentsFromDbReturns ==
    /\ pc = "phase2"
    /\ ShutdownReturns(Cardinality(queue) + Cardinality(running))
    /\ pc' = "stream"
    /\ UNCHANGED <<DEBUG, LISTEN_ONLY, exc, arrived, skipped, yielded, handled, faulted,
                   last, replies, db, batch, queue, running, processed, body, found, pool>>

Next ==
    \/ CommentPosted
    \/ RecordAges
    \/ ListenToCommentStream
    \/ HandleComment
    \/ RunPendingReturns
    \/ RunPendingRaises
    \/ EventExcept
    \/ StreamFault
    \/ MainExcept
    \/ WakeUp
    \/ FilterCommentsFromDb
    \/ WorkerStarts
    \/ WorkerFinishes
    \/ FilterCommentsFromDbReturns

Spec == Init /\ [][Next]_vars

\* The listing behind the stream is a window of the newest comments: after a
\* resubscription a comment an earlier subscription yielded can come again.
Redelivery ==
    \E id \in skipped \ yielded :
        /\ handled[id] > 0
        /\ handled[id] < MaxDeliveries
        /\ Handle(id)

NextRedelivery == Next \/ Redelivery

SpecRedelivery == Init /\ [][NextRedelivery]_vars

-----------------------------------------------------------------------------
(* Claims about one Phase-1 pass (SpecPhase1) *)

PassDone == pc = "return"
PassTrace == last.out.trace
PassReplies == SelectSeq(PassTrace, IsReply)
PassInserts == SelectSeq(PassTrace, IsAddComment)
PassSearched == \E i \in DOMAIN PassTrace : PassTrace[i] = Search

\* the comment matched the pattern and passed filters 1-4 of the pass
Matched(c) == check_pattern(c.body).some
Target(c) == check_pattern(c.body).val
PassedFilters(c) ==
    /\ Matched(c)
    /\ Len(Target(c)) <= SUBREDDIT_NAME_LENGTH_LIMIT
    /\ ~is_mod_post(c)
    /\ ~title_contains_prohibited_phrases(c)
    /\ Lower(Target(c)) \notin SUB_BLACKLIST
    /\ Lower(c.subreddit) \notin SUB_BLACKLIST
SameCommunity(c) == Lower(Target(c)) = Lower(c.subreddit)

\* the outcome of the duplicate search of the pass
SearchOutcome ==
    LET g == get_posts_with_same_content(last.resp)
    IN  IF g.raised # NoExc THEN "RAISED"
        ELSE IF g.result.posts_found THEN "FOUND"
        ELSE IF g.result.unable_to_search THEN g.result.unable_to_search_reason
        ELSE "NOT_FOUND"

\* C1: a Phase-1 pass ends with one reply posted, or one staging record inserted,
\* or neither: never a reply and a record, never two replies, never two records;
\* and the sink and the store hold exactly what the pass did.
C1_OneEffectPerPass ==
    PassDone =>
        /\ Len(PassReplies) + Len(PassInserts) <= 1
        /\ replies[last.c.id] = PassReplies
        /\ (db[last.c.id] = "fresh") = (PassInserts # <<>>)

C1_Witness ==
    /\ PassDone
    /\ PassSearched
    /\ Len(replies[last.c.id]) = 1
    /\ db[last.c.id] = "none"

\* C5 as stated: a comment whose body matches and whose source community equals
\* its target community (case-insensitively) gets the same-subreddit reply, with
\* no search and no staging record.
C5_SameSubredditAlwaysReplies ==
    (PassDone /\ Matched(last.c) /\ SameCommunity(last.c)) =>
        /\ PassTrace = <<reply_to_source_equals_target_comment>>
        /\ db[last.c.id] = "none"

\* C5 amended: the same, for the comments that also passed the filters applied
\* before the same-community check (name length, moderator, title, blacklist).
C5_EligibleSameSubredditReplies ==
    (PassDone /\ PassedFilters(last.c) /\ SameCommunity(last.c)) =>
        /\ PassTrace = <<reply_to_source_equals_target_comment>>
        /\ replies[last.c.id] = <<reply_to_source_equals_target_comment>>
        /\ ~PassSearched
        /\ db[last.c.id] = "none"

C5_Witness ==
    /\ PassDone
    /\ PassedFilters(last.c) /\ SameCommunity(last.c)
    /\ Target(last.c) # last.c.subreddit
    /\ replies[last.c.id] = <<reply_to_source_equals_target_comment>>

-----------------------------------------------------------------------------
(* Claims about the Pattern Detector (SpecPattern) *)

IsSpace(ch) == ch \in {" ", "\n", "\t", "\r"}

\* str.strip()
RECURSIVE Trim(_)
Trim(s) ==
    IF s = <<>> THEN s
    ELSE IF IsSpace(s[1]) THEN Trim(Tail(s))
    ELSE IF IsSpace(s[Len(s)]) THEN Trim(SubSeq(s, 1, Len(s) - 1))
    ELSE s

AllowedNameChar(ch) == ch \in LowerLetters \cup UpperLetters \cup Digits \cup {"-", "_"}

\* <name> when t is exactly r/<name> or /r/<name>, else no match
ShapeName(t) ==
    LET from == IF Len(t) >= 2 /\ SubSeq(t, 1, 2) = <<"r","/">> THEN 3
                ELSE IF Len(t) >= 3 /\ SubSeq(t, 1, 3) = <<"/","r","/">> THEN 4
                ELSE 0
    IN  IF from > 0 /\ Len(t) >= from /\ \A i \in from .. Len(t) : AllowedNameChar(t[i])
        THEN Some(SubSeq(t, from, Len(t)))
        ELSE None

\* s without one final newline
DropFinalNewline(s) ==
    IF s # <<>> /\ s[Len(s)] = "\n" THEN SubSeq(s, 1, Len(s) - 1) ELSE s

\* C8 as stated: check_pattern returns <name> exactly when the trimmed body is
\* r/<name> or /r/<name>, and no match for every other body.
C8_MatchesTrimmedBody == found.done => found.r = ShapeName(Trim(body))

\* C8 amended: check_pattern returns <name> exactly when the body as it is, less at
\* most one final newline, is r/<name> or /r/<name>; the body is not trimmed.
C8_MatchesWholeBody == found.done => found.r = ShapeName(DropFinalNewline(body))

C8_Witness ==
    /\ found.done
    /\ body = <<"/","r","/","a","\n">>
    /\ found.r = Some(<<"a">>)

-----------------------------------------------------------------------------
(* Claims about the stream loop and Phase-2 (Spec, SpecRedelivery) *)

\* C2: a single comment identity yields at most one outbound reply, also when
\* the stream delivers the comment to Phase-1 a second time after a resume.
C2_AtMostOneReplyPerComment == \A id \in Ids : Len(replies[id]) <= 1

\* the verdict of the filters of run_filters on the live comment a worker saw
Verdict(id) == RunFiltersBody(processed[id])
Settled(id) == processed[id].seen /\ id \in batch \ (queue \cup running)

\* C3: a record that Phase-2 processed is marked checked and not deleted when its
\* filter verdict is 'passed', and deleted and not marked checked when its verdict
\* is 'not passed'.
C3_VerdictDecidesRecord ==
    \A id \in Ids :
        (Settled(id) /\ Verdict(id).raised = NoExc) =>
            IF Verdict(id).result.passes_filter
            THEN db[id] = "checked"
            ELSE db[id] = "none"

\* C4: once a Phase-2 run has ended, every record it pulled is marked checked or
\* deleted, whether or not the processing of a record raised.
C4_PulledRecordsSettled ==
    pc # "phase2" => \A id \in batch : db[id] \in {"checked", "none"}

\* C9: in production mode an exception raised while one event is handled is
\* logged and leaves the loop in the same subscription, ready to pull the next
\* event: the event is skipped and neither main's except clauses nor the end of
\* the process are reached.
C9_EventExceptionKeepsLoop ==
    [][ (pc = "except" /\ ~DEBUG /\ pc' # pc) =>
            /\ pc' = "stream"
            /\ exc' = NoExc
            /\ faulted' = faulted \cup {last.c.id}
            /\ skipped' = skipped /\ yielded' = yielded ]_vars

C9_Witness ==
    /\ ~DEBUG
    /\ pc = "pending"
    /\ faulted # {}
    /\ last.c.id \notin faulted
    /\ last.c.id \in yielded /\ faulted \subseteq yielded

\* C10 as stated: in production mode no exception raised out of stream
\* consumption, of whatever class, makes the main loop exit.
C10_ProductionNeverExits == ~DEBUG => pc # "exited"

\* the classes the spec lists as transient network faults
ListedFault(e) ==
    \/ e.cls \in {"ServerError", "Forbidden", "ConnectTimeout"}
    \/ e.cls = "RequestException" /\ e.orig \in {"MaxRetryError", "ReadTimeoutError"}

\* C10 amended: in production mode the main loop exits only on an exception that
\* is none of: upstream service error, forbidden response, connection timeout,
\* request failure wrapping a max-retries-exceeded or read-timeout fault; each of
\* these is absorbed by the cool-down.
C10_ProductionExitsOnlyOnUnlisted ==
    /\ (~DEBUG /\ pc = "exited") => ~ListedFault(exc)
    /\ (~DEBUG /\ pc = "sleep") => ListedFault(exc)

C10_Witness ==
    /\ ~DEBUG
    /\ pc = "sleep"
    /\ exc = Exc("RequestException", "ReadTimeoutError")
    /\ \E id \in Ids : handled[id] > 0

-----------------------------------------------------------------------------
(* Claims about the cool-down and the new subscription (SpecFair) *)

\* main's while loop keeps running: an except clause that was entered completes,
\* time.sleep(30) returns, and listen_to_comment_stream is called again
SpecFair ==
    /\ Spec
    /\ WF_vars(MainExcept)
    /\ WF_vars(WakeUp)
    /\ WF_vars(ListenToCommentStream)

\* a listed fault is caught in production mode
CaughtListedFault == ~DEBUG /\ pc = "main_except" /\ ListedFault(exc)

\* from the fault to the new subscription the loop takes the cool-down once and
\* nothing else: no event is handled and no reply or record is written
C11_OneCoolDownThenSubscribe ==
    [][ /\ (CaughtListedFault /\ pc' # pc) => pc' = "sleep"
        /\ (pc = "sleep" /\ pc' # pc) => pc' = "start"
        /\ (pc = "start" /\ pc' # pc) => pc' = "stream"
        /\ pc \in {"main_except", "sleep", "start"} =>
              /\ handled' = handled
              /\ replies' = replies ]_vars

\* the new subscription skips everything that exists when it is made, and what a
\* subscription skipped is not passed to Phase-1 afterwards
C11_BacklogNeverHandled ==
    [][ /\ (pc = "start" /\ pc' = "stream") => (skipped' = arrived /\ yielded' = {})
        /\ \A id \in Ids : id \in skipped' => handled'[id] = handled[id] ]_vars

\* C11: in production mode each listed fault raised out of stream consumption is
\* followed by one 30-second cool-down and then by a new subscription that skips
\* the backlog existing at subscribe time; the events that arrived between the
\* fault and the new subscription are never passed to Phase-1.
C11_CoolDownThenFreshSubscription ==
    /\ C11_OneCoolDownThenSubscribe
    /\ C11_BacklogNeverHandled
    /\ CaughtListedFault ~> (pc = "sleep")
    /\ (~DEBUG /\ pc = "sleep") ~> (pc = "stream" /\ yielded = {} /\ skipped = arrived)

\* a second subscription in production mode: one comment was handled by the first,
\* another is in the backlog the new one skipped and was never handled
C11_Witness ==
    /\ ~DEBUG
    /\ pc = "stream"
    /\ yielded = {}
    /\ \E id \in Ids : handled[id] > 0
    /\ \E id \in skipped : handled[id] = 0

-----------------------------------------------------------------------------
(* Claims about the run modes (Spec) *)

\* C12: in every run with listen_only set no reply is ever posted, whatever
\* comments arrive on the stream.
C12_ListenOnlyNeverReplies == LISTEN_ONLY => \A id \in Ids : replies[id] = <<>>

-----------------------------------------------------------------------------
(* Claims about the Duplicate Search Client (SpecPhase1) *)

\* the pass reached the search, and the search failed with exception e
SearchFailed ==
    /\ PassDone /\ PassedFilters(last.c) /\ ~SameCommunity(last.c)
    /\ ~last.resp.search.ok

\* the outcome the classification gives to a failure signal and a response body
ClassifiedAs(e) ==
    CASE e.msg = "Redirect to /submit" -> "NOT_FOUND"
      [] e.msg \in {"Redirect to /subreddits/search", "received 404 HTTP response"} ->
            IF e.text = TextBanned THEN "SUBREDDIT_IS_BANNED" ELSE "SUBREDDIT_DOES_NOT_EXIST"
      [] e.msg = "received 403 HTTP response" -> "SUBREDDIT_IS_PRIVATE"
      [] OTHER -> "RAISED"

\* C13: every search failure is classified by its signal and response body: for
\* the four signals and every response body an outcome is returned and nothing is
\* raised out of the pass; every other failure is raised again.
C13_EveryFailureClassified ==
    SearchFailed =>
        LET e == last.resp.search.e
        IN  /\ SearchOutcome = ClassifiedAs(e)
            /\ IF ClassifiedAs(e) = "RAISED"
               THEN last.out.raised = e
               ELSE last.out.raised = NoExc

\* C14: in debug mode an exception raised while an event is handled, or raised out
\* of stream consumption, propagates and ends the process: from the event's except
\* clause it goes on to main, and from main's except clauses the process exits;
\* it is never followed by the next event or by the cool-down.
C14_DebugExceptionTerminates ==
    [][ DEBUG =>
          /\ (pc = "except" /\ pc' # pc) => (pc' = "main_except" /\ exc' = exc)
          /\ (pc = "main_except" /\ pc' # pc) => pc' = "exited" ]_vars

-----------------------------------------------------------------------------
(* Claims about the order of the Phase-1 filters (SpecPhase1) *)

\* one of the filters before the same-community check rejects the comment
RejectedByFilter(c) ==
    /\ Matched(c)
    /\ \/ Len(Target(c)) > SUBREDDIT_NAME_LENGTH_LIMIT
       \/ is_mod_post(c)
       \/ title_contains_prohibited_phrases(c)
       \/ Lower(Target(c)) \in SUB_BLACKLIST
       \/ Lower(c.subreddit) \in SUB_BLACKLIST

\* C15: a matching comment whose extracted name is longer than 24 characters, or
\* that is moderator-authored, or whose title holds a prohibited phrase, or whose
\* source or target is blacklisted, ends dropped: no reply, no search, no staging
\* record and nothing raised, also when its source equals its target, whatever the
\* answer to a search would have been.
C15_FiltersShortCircuit ==
    (PassDone /\ RejectedByFilter(last.c)) =>
        /\ PassTrace = <<>>
        /\ ~PassSearched
        /\ replies[last.c.id] = <<>>
        /\ db[last.c.id] = "none"
        /\ last.out.raised = NoExc

\* a moderator's comment naming the community it is posted in, in another case,
\* with a search that would have found a post, is dropped
C15_Witness ==
    /\ PassDone
    /\ is_mod_post(last.c)
    /\ Matched(last.c) /\ SameCommunity(last.c) /\ Target(last.c) # last.c.subreddit
    /\ Len(last.resp.search.submissions) > 0
    /\ replies[last.c.id] = <<>> /\ db[last.c.id] = "none"

-----------------------------------------------------------------------------
(* Claims about the Phase-2 verdict (Spec) *)

\* the live comment can be judged: fetching it succeeds or says it is gone, and
\* the search, if it is reached, returns an outcome
Judgeable(live) ==
    /\ live.seen
    /\ live.fetch \in {"ok", "ClientException"}
    /\ get_posts_with_same_content(live.resp).raised = NoExc

\* the verdict the checks give in their order, the first failing one deciding
FirstFailingCheck(live) ==
    LET g == get_posts_with_same_content(live.resp).result
    IN  IF live.fetch # "ok" THEN FilterResult(FALSE, "COMMENT_UNAVAILABLE")
        ELSE IF live.score < COMMENT_SCORE_THRESHOLD
             THEN FilterResult(FALSE, "COMMENT_SCORE_TOO_LOW")
        ELSE IF ShapeName(DropFinalNewline(live.body)) = None
             THEN FilterResult(FALSE, "TARGET_SUBREDDIT_NOT_FOUND")
        ELSE IF g.posts_found THEN FilterResult(FALSE, "POST_WITH_SAME_CONTENT_FOUND")
        ELSE IF g.unable_to_search
             THEN FilterResult(FALSE, UnableReasonTag(g.unable_to_search_reason))
        ELSE FilterResult(TRUE, "None")

\* C16: for a record a Phase-2 worker processed, run_filters returns a verdict,
\* which passes exactly when the live comment is available, its score is not below
\* the threshold, its body still matches and the search outcome is NOT_FOUND, and
\* otherwise carries the reason of the first failing check.
C16_VerdictOfFirstFailingCheck ==
    \A id \in Ids :
        (Settled(id) /\ Judgeable(processed[id])) =>
            /\ run_filters(processed[id]).raised = NoExc
            /\ run_filters(processed[id]).result = FirstFailingCheck(processed[id])

-----------------------------------------------------------------------------
(* Claims about the Repost Fallback Detector (SpecPhase1) *)

\* the live search yields zero results: an empty sequence, or the redirect to the
\* submission page
ZeroResults(resp) ==
    \/ resp.search.ok /\ resp.search.submissions = <<>>
    \/ ~resp.search.ok /\ resp.search.e.msg = "Redirect to /submit"

\* C17: in a pass that reaches the search, NOT_FOUND is concluded only after the
\* repost detector was consulted and returned nothing; it is consulted on every
\* path on which the live search yields zero results (an empty sequence or the
\* redirect to the submission page) and on no other; and when it returns
\* something the outcome is FOUND.
C17_NotFoundOnlyAfterFallback ==
    (PassDone /\ PassedFilters(last.c) /\ ~SameCommunity(last.c)) =>
        LET g == get_posts_with_same_content(last.resp)
        IN  /\ SearchOutcome = "NOT_FOUND" => (g.fallback /\ last.resp.prior_posts = <<>>)
            /\ g.fallback <=> ZeroResults(last.resp)
            /\ (ZeroResults(last.resp) /\ last.resp.prior_posts # <<>>) =>
                  SearchOutcome = "FOUND"

-----------------------------------------------------------------------------
(* Claims about the scheduler and the pool of Phase-2 (Spec) *)

\* C18: after Phase-1 has been invoked for an event and before the next event is
\* pulled, schedule.run_pending() is called, also when Phase-1 raised: the loop
\* comes back to the stream only from a new subscription or out of run_pending
\* (a Phase-2 run is a job inside run_pending, and a job that raised leaves it
\* through the except clause), never from the except clause with an exception
\* that Phase-1 raised.
C18_SchedulerRunsAfterEachEvent ==
    [][ (pc' = "stream" /\ pc # "stream") =>
            \/ pc \in {"start", "pending", "phase2"}
            \/ pc = "except" /\ last.out.raised = NoExc ]_vars

-----------------------------------------------------------------------------
(* Specification of the thread pool of one Phase-2 run, for every batch size *)

\* The records of a batch are alike to the pool, so the pool is kept by counts,
\* with one record of the batch (mine) followed through it.  What a thread does to
\* its record in the store is in WorkerFinishes of the loop specification.

InitPoolSpec ==
    /\ \E n \in 0 .. MaxBatch : pool = Pool(n, 0, 0, 0, "none", 0)
    /\ DEBUG = FALSE /\ LISTEN_ONLY = FALSE
    /\ pc = "call"
    /\ last = Idle
    /\ replies = [id \in Ids |-> <<>>]
    /\ db = [id \in Ids |-> "none"]
    /\ batch = {} /\ queue = {} /\ running = {}
    /\ processed = [id \in Ids |-> NoLive]
    /\ InitStream /\ InitPattern

\* phase2_handler lines 20-26: no record, and the run returns; else executor.map
\* submits every record of the batch to the pool's work queue
PoolMap ==
    /\ pc = "call"
    /\ IF pool.size = 0
       THEN pc' = "return" /\ pool' = pool
       ELSE pc' = "phase2" /\ pool' = Pool(pool.size, pool.size, 0, 0, "queued", 0)
    /\ UNCHANGED <<DEBUG, LISTEN_ONLY, exc, arrived, skipped, yielded, handled, faulted,
                   last, replies, db, batch, queue, running, processed, body, found>>

\* a free thread of the pool takes the record I follow from the work queue
PoolStartsMine ==
    /\ pc = "phase2"
    /\ pool.mine = "queued"
    /\ PoolHasIdleThread(pool.active)
    /\ pool' = [pool EXCEPT !.queued = @ - 1, !.active = @ + 1,
                            !.mine = "running", !.handed = @ + 1]
    /\ UNCHANGED <<DEBUG, LISTEN_ONLY, pc, exc, arrived, skipped, yielded, handled, faulted,
                   last, replies, db, batch, queue, running, processed, body, found>>

\* a free thread of the pool takes another record from the work queue
PoolStartsOther ==
    /\ pc = "phase2"
    /\ pool.queued > (IF pool.mine = "queued" THEN 1 ELSE 0)
    /\ PoolHasIdleThread(pool.active)
    /\ pool' = [pool EXCEPT !.queued = @ - 1, !.active = @ + 1]
    /\ UNCHANGED <<DEBUG, LISTEN_ONLY, pc, exc, arrived, skipped, yielded, handled, faulted,
                   last, replies, db, batch, queue, running, processed, body, found>>

\* the thread processing my record is done with it, normally or by an exception
PoolFinishesMine ==
    /\ pc = "phase2"
    /\ pool.mine = "running"
    /\ pool' = [pool EXCEPT !.active = @ - 1, !.finished = @ + 1, !.mine = "finished"]
    /\ UNCHANGED <<DEBUG, LISTEN_ONLY, pc, exc, arrived, skipped, yielded, handled, faulted,
                   last, replies, db, batch, queue, running, processed, body, found>>

\* a thread processing another record is done with it
PoolFinishesOther ==
    /\ pc = "phase2"
    /\ pool.active > (IF pool.mine = "running" THEN 1 ELSE 0)
    /\ pool' = [pool EXCEPT !.active = @ - 1, !.finished = @ + 1]
    /\ UNCHANGED <<DEBUG, LISTEN_ONLY, pc, exc, arrived, skipped, yielded, handled, faulted,
                   last, replies, db, batch, queue, running, processed, body, found>>

\* phase2_handler lines 25-27: the with block ends
PoolReturns ==
    /\ pc = "phase2"
    /\ ShutdownReturns(pool.queued + pool.active)
    /\ pc' = "return"
    /\ UNCHANGED <<DEBUG, LISTEN_ONLY, exc, arrived, skipped, yielded, handled, faulted,
                   last, replies, db, batch, queue, running, processed, body, found, pool>>

NextPool ==
    \/ PoolMap
    \/ PoolStartsMine
    \/ PoolStartsOther
    \/ PoolFinishesMine
    \/ PoolFinishesOther
    \/ PoolReturns

SpecPool == InitPoolSpec /\ [][NextPool]_vars

\* C19: during a Phase-2 run the number of records being processed at once never
\* exceeds max_workers (50), whatever the size of the batch, larger than 50
\* included; every record of the batch is handed to a worker once, never twice,
\* and when the run returns every record has been handed over and is done.
C19_WorkerBudgetRespected ==
    /\ pool.active <= max_workers
    /\ pool.handed <= 1
    /\ pool.mine \in {"running", "finished"} <=> pool.handed = 1
    /\ pc = "phase2" => pool.queued + pool.active + pool.finished = pool.size
    /\ (pc = "return" /\ pool.size > 0) =>
          (pool.finished = pool.size /\ pool.mine = "finished" /\ pool.handed = 1)

\* a batch larger than the budget: every thread is busy and records, mine among
\* them, wait in the work queue
C19_Witness ==
    /\ pc = "phase2"
    /\ pool.size > max_workers
    /\ pool.active = max_workers
    /\ pool.queued > 0 /\ pool.mine = "queued"

-----------------------------------------------------------------------------
(* Claims about the end of a Phase-2 run (Spec) *)

\* a Phase-2 worker has a record in hand, or a record waits for one
WorkersBusy == running # {} \/ queue # {}

\* C20: filter_comments_from_db returns only after every worker started for its
\* batch has finished, normally or by an exception: outside a run no worker is
\* busy; so none is while the stream passes an event to Phase-1, and none of an
\* earlier run is when a run starts.
C20_RunReturnsAfterWorkers ==
    /\ [](pc # "phase2" => ~WorkersBusy)
    /\ [][ /\ (pc = "phase2" /\ pc' # "phase2") =>
                 (~WorkersBusy /\ \A id \in batch : processed[id].seen)
           /\ handled' # handled => (~WorkersBusy /\ ~WorkersBusy')
           /\ (pc # "phase2" /\ pc' = "phase2") => (~WorkersBusy /\ running' = {}) ]_vars

\* a run over a batch of two has returned: both workers have finished, by an
\* exception (their records are as they were), and the loop is back at the stream
C20_Witness ==
    /\ pc = "stream"
    /\ Cardinality(batch) = 2
    /\ ~WorkersBusy
    /\ \A id \in batch : processed[id].seen /\ db[id] = "aged"

====
